---- MODULE Spec2Model ----
(***************************************************************************)
(* A model of rei's content detector (rei/compression/detector.py) and of  *)
(* the ReiCompressor orchestrator (rei/compressor.py).                     *)
(*                                                                         *)
(* Text is a sequence of one-character strings.  A byte string is a        *)
(* sequence whose elements are one-character strings (ASCII bytes) or the  *)
(* names "x00", "x89", "xd8", "xff" of bytes that have no printable form.  *)
(***************************************************************************)
EXTENDS Integers, Sequences, FiniteSets, TLC

\* ------------------------------------------------------------------------
\* Bounds of the model
\* ------------------------------------------------------------------------

\* Longest text handed to the detector, counted in tokens of TextTokens.
MaxToks == 5

\* Longest descriptor (list of tools) handed to decompress.
MaxTools == 2

\* Longest tool description, counted in tokens of DescTokens.
MaxDescToks == 2

\* ------------------------------------------------------------------------
\* Python's str operations, as the detector uses them
\* ------------------------------------------------------------------------

\* str.strip() and the regular expression class \s
Whitespace == {" ", "\t", "\n", "\r", "\f"}

\* the backtick, which a TLA+ string cannot hold, by name
Backtick == "backtick"

Digits == {"0", "1", "2", "3", "4", "5", "6", "7", "8", "9"}

Min(a, b) == IF a <= b THEN a ELSE b

Abs(n) == IF n < 0 THEN -n ELSE n

RECURSIVE Flatten(_)
Flatten(parts) ==
    IF parts = <<>> THEN <<>> ELSE Head(parts) \o Flatten(Tail(parts))

RECURSIVE lstrip(_)
lstrip(s) ==
    IF s # <<>> /\ Head(s) \in Whitespace THEN lstrip(Tail(s)) ELSE s

RECURSIVE rstrip(_)
rstrip(s) ==
    IF s # <<>> /\ s[Len(s)] \in Whitespace
    THEN rstrip(SubSeq(s, 1, Len(s) - 1))
    ELSE s

strip(s) == rstrip(lstrip(s))

\* s.split(sep) for a one-character separator: never empty, "" gives [""]
RECURSIVE SplitFrom(_, _, _, _)
SplitFrom(s, sep, i, cur) ==
    IF i > Len(s) THEN <<cur>>
    ELSE IF s[i] = sep THEN <<cur>> \o SplitFrom(s, sep, i + 1, <<>>)
    ELSE SplitFrom(s, sep, i + 1, Append(cur, s[i]))

split(s, sep) == SplitFrom(s, sep, 1, <<>>)

\* s.split(): the maximal runs of non-whitespace characters
RECURSIVE WordsFrom(_, _, _)
WordsFrom(s, i, cur) ==
    IF i > Len(s) THEN (IF cur = <<>> THEN <<>> ELSE <<cur>>)
    ELSE IF s[i] \in Whitespace
    THEN (IF cur = <<>> THEN <<>> ELSE <<cur>>) \o WordsFrom(s, i + 1, <<>>)
    ELSE WordsFrom(s, i + 1, Append(cur, s[i]))

split_ws(s) == WordsFrom(s, 1, <<>>)

\* s.count(c) for a one-character c, and list.count(x)
count(s, x) == Cardinality({i \in 1..Len(s) : s[i] = x})

\* s.startswith(p) at offset i (1-based)
StartsWithAt(s, i, p) ==
    /\ i >= 1
    /\ i + Len(p) - 1 <= Len(s)
    /\ SubSeq(s, i, i + Len(p) - 1) = p

startswith(s, p) == StartsWithAt(s, 1, p)

endswith(s, p) == StartsWithAt(s, Len(s) - Len(p) + 1, p)

\* p in s
Contains(s, p) == \E i \in 1..(Len(s) + 1) : StartsWithAt(s, i, p)

\* the offsets at which the regular expression anchor ^ matches (re.MULTILINE)
LineStart(s, i) == i = 1 \/ (i > 1 /\ i <= Len(s) + 1 /\ s[i - 1] = "\n")

\* the offset after the maximal run of characters of set cs that starts at i
RECURSIVE RunEnd(_, _, _)
RunEnd(s, i, cs) ==
    IF i <= Len(s) /\ s[i] \in cs THEN RunEnd(s, i + 1, cs) ELSE i

\* ------------------------------------------------------------------------
\* json.loads on text: a recogniser of the JSON grammar as Python's decoder
\* accepts it.  Every scanner returns the offset after what it read, or 0.
\* ------------------------------------------------------------------------

JsonWhitespace == {" ", "\t", "\n", "\r"}

\* characters a strict JSON string may not hold unescaped (below 0x20)
ControlChars == {"\t", "\n", "\r", "\f", "x00"}

SimpleEscapes == {"\"", "\\", "/", "b", "f", "n", "r", "t"}

HexDigits == Digits \cup {"a", "b", "c", "d", "e", "f", "A", "B", "C", "D", "E", "F"}

SkipWs(s, i) == RunEnd(s, i, JsonWhitespace)

\* i is the offset after the opening quote
RECURSIVE ScanString(_, _)
ScanString(s, i) ==
    IF i > Len(s) THEN 0
    ELSE IF s[i] = "\"" THEN i + 1
    ELSE IF s[i] = "\\"
    THEN IF i + 1 <= Len(s) /\ s[i + 1] \in SimpleEscapes
         THEN ScanString(s, i + 2)
         ELSE IF /\ i + 5 <= Len(s)
                 /\ s[i + 1] = "u"
                 /\ \A k \in 2..5 : s[i + k] \in HexDigits
         THEN ScanString(s, i + 6)
         ELSE 0
    ELSE IF s[i] \in ControlChars THEN 0
    ELSE ScanString(s, i + 1)

\* NUMBER_RE: (-?(?:0|[1-9][0-9]*))(\.[0-9]+)?([eE][-+]?[0-9]+)?
ScanNumber(s, i) ==
    LET j == IF i <= Len(s) /\ s[i] = "-" THEN i + 1 ELSE i
    IN  IF j > Len(s) \/ s[j] \notin Digits THEN 0
        ELSE LET k == IF s[j] = "0" THEN j + 1 ELSE RunEnd(s, j, Digits)
                 f == IF k + 1 <= Len(s) /\ s[k] = "." /\ s[k + 1] \in Digits
                      THEN RunEnd(s, k + 1, Digits)
                      ELSE k
                 g == IF f <= Len(s) /\ s[f] \in {"e", "E"}
                      THEN IF f + 1 <= Len(s) /\ s[f + 1] \in {"-", "+"}
                           THEN f + 2
                           ELSE f + 1
                      ELSE 0
             IN  IF g # 0 /\ g <= Len(s) /\ s[g] \in Digits
                 THEN RunEnd(s, g, Digits)
                 ELSE f

RECURSIVE ScanOnce(_, _)
RECURSIVE ArrayItems(_, _)
RECURSIVE ObjectItems(_, _)

\* i is the offset after "["
ScanArray(s, i) ==
    LET j == SkipWs(s, i)
    IN  IF j <= Len(s) /\ s[j] = "]" THEN j + 1 ELSE ArrayItems(s, j)

ArrayItems(s, j) ==
    LET v == ScanOnce(s, j)
    IN  IF v = 0 THEN 0
        ELSE LET k == SkipWs(s, v)
             IN  IF k > Len(s) THEN 0
                 ELSE IF s[k] = "]" THEN k + 1
                 ELSE IF s[k] = "," THEN ArrayItems(s, SkipWs(s, k + 1))
                 ELSE 0

\* i is the offset after "{"
ScanObject(s, i) ==
    LET j == SkipWs(s, i)
    IN  IF j <= Len(s) /\ s[j] = "}" THEN j + 1 ELSE ObjectItems(s, j)

\* j is the offset at which a key must start
ObjectItems(s, j) ==
    IF j > Len(s) \/ s[j] # "\"" THEN 0
    ELSE LET k == ScanString(s, j + 1)
             c == SkipWs(s, k)
         IN  IF k = 0 \/ c > Len(s) \/ s[c] # ":" THEN 0
             ELSE LET v == ScanOnce(s, SkipWs(s, c + 1))
                      e == SkipWs(s, v)
                  IN  IF v = 0 \/ e > Len(s) THEN 0
                      ELSE IF s[e] = "}" THEN e + 1
                      ELSE IF s[e] = "," THEN ObjectItems(s, SkipWs(s, e + 1))
                      ELSE 0

\* json.scanner.py_make_scanner._scan_once
ScanOnce(s, i) ==
    IF i > Len(s) THEN 0
    ELSE IF s[i] = "\"" THEN ScanString(s, i + 1)
    ELSE IF s[i] = "{" THEN ScanObject(s, i + 1)
    ELSE IF s[i] = "[" THEN ScanArray(s, i + 1)
    ELSE IF StartsWithAt(s, i, <<"n", "u", "l", "l">>) THEN i + 4
    ELSE IF StartsWithAt(s, i, <<"t", "r", "u", "e">>) THEN i + 4
    ELSE IF StartsWithAt(s, i, <<"f", "a", "l", "s", "e">>) THEN i + 5
    ELSE IF ScanNumber(s, i) # 0 THEN ScanNumber(s, i)
    ELSE IF StartsWithAt(s, i, <<"N", "a", "N">>) THEN i + 3
    ELSE IF StartsWithAt(s, i, <<"I", "n", "f", "i", "n", "i", "t", "y">>) THEN i + 8
    ELSE IF StartsWithAt(s, i, <<"-", "I", "n", "f", "i", "n", "i", "t", "y">>) THEN i + 9
    ELSE 0

\* json.loads(text) returns (TRUE) or raises json.JSONDecodeError (FALSE)
JsonParses(text) ==
    LET v == ScanOnce(text, SkipWs(text, 1))
    IN  v # 0 /\ SkipWs(text, v) = Len(text) + 1

\* ------------------------------------------------------------------------
\* ContentDetector
\* ------------------------------------------------------------------------

is_json(text) == JsonParses(text)

is_xml(text) ==
    LET t == strip(text)
    IN  \/ startswith(t, <<"<", "?", "x", "m", "l">>)
        \/ (startswith(t, <<"<">>) /\ endswith(t, <<">">>))

Delimiters == <<",", ";", "\t", "|">>

\* the code compares lines.count(delimiter), the number of whole lines equal
\* to the delimiter, with the first line's delimiter count
is_csv(text) ==
    LET lines == split(strip(text), "\n")
    IN  IF Len(lines) < 2 THEN FALSE
        ELSE \E d \in 1..Len(Delimiters) :
                LET delimiter == Delimiters[d]
                    first_count == count(lines[1], delimiter)
                IN  /\ first_count > 0
                    /\ \A k \in 2..Min(5, Len(lines)) :
                          Abs(count(lines, <<delimiter>>) - first_count) <= 1

YamlIndicators == {<<"-", "-", "-">>, <<":">>, <<"-", " ">>}

is_yaml(text) ==
    LET lines == split(strip(text), "\n")
    IN  \E k \in 1..Min(5, Len(lines)) :
            \E indicator \in YamlIndicators : Contains(strip(lines[k]), indicator)

CodeIndicators ==
    { <<"d", "e", "f", " ">>, <<"c", "l", "a", "s", "s", " ">>,
      <<"i", "m", "p", "o", "r", "t", " ">>, <<"f", "r", "o", "m", " ">>,
      <<"f", "u", "n", "c", "t", "i", "o", "n", " ">>,
      <<"c", "o", "n", "s", "t", " ">>, <<"l", "e", "t", " ">>,
      <<"v", "a", "r", " ">>, <<"p", "u", "b", "l", "i", "c", " ">>,
      <<"p", "r", "i", "v", "a", "t", "e", " ">>,
      <<"s", "t", "a", "t", "i", "c", " ">>,
      <<"#", "i", "n", "c", "l", "u", "d", "e">>,
      <<"i", "n", "t", " ", "m", "a", "i", "n">>,
      <<"<", "?", "p", "h", "p">>, <<"<", "?", "=">> }

is_code(text) == \E indicator \in CodeIndicators : Contains(text, indicator)

\* r'^#+\s'
MdHeader(s) ==
    \E i \in 1..Len(s) :
        /\ LineStart(s, i)
        /\ s[i] = "#"
        /\ LET j == RunEnd(s, i, {"#"}) IN j <= Len(s) /\ s[j] \in Whitespace

\* r'^\*\s'
MdBullet(s) ==
    \E i \in 1..(Len(s) - 1) :
        LineStart(s, i) /\ s[i] = "*" /\ s[i + 1] \in Whitespace

\* r'^\d+\.\s'
MdNumbered(s) ==
    \E i \in 1..Len(s) :
        /\ LineStart(s, i)
        /\ s[i] \in Digits
        /\ LET j == RunEnd(s, i, Digits)
           IN  j + 1 <= Len(s) /\ s[j] = "." /\ s[j + 1] \in Whitespace

\* no newline in s[i..j]: what ".*" may cross
SameLine(s, i, j) == \A k \in i..j : s[k] # "\n"

\* r'\[.*\]\(.*\)'
MdLink(s) ==
    \E i \in 1..Len(s) : \E j \in (i + 1)..Len(s) : \E k \in (j + 2)..Len(s) :
        /\ s[i] = "[" /\ s[j] = "]" /\ s[j + 1] = "(" /\ s[k] = ")"
        /\ SameLine(s, i, k)

\* r'\*\*.*\*\*'
MdBold(s) ==
    \E i \in 1..Len(s) : \E j \in (i + 2)..(Len(s) - 1) :
        /\ StartsWithAt(s, i, <<"*", "*">>)
        /\ StartsWithAt(s, j, <<"*", "*">>)
        /\ SameLine(s, i, j)

\* a fenced code block: three backticks
MdFence(s) == Contains(s, <<Backtick, Backtick, Backtick>>)

is_markdown(text) ==
    \/ MdHeader(text) \/ MdBullet(text) \/ MdNumbered(text)
    \/ MdLink(text) \/ MdBold(text) \/ MdFence(text)

is_plain_text(text) == TRUE

\* self._text_patterns, in insertion order
TextPatterns ==
    << "text/json", "text/xml", "text/csv", "text/yaml",
       "text/code", "text/markdown", "text/plain" >>

Detector(content_type, text) ==
    CASE content_type = "text/json" -> is_json(text)
      [] content_type = "text/xml" -> is_xml(text)
      [] content_type = "text/csv" -> is_csv(text)
      [] content_type = "text/yaml" -> is_yaml(text)
      [] content_type = "text/code" -> is_code(text)
      [] content_type = "text/markdown" -> is_markdown(text)
      [] OTHER -> is_plain_text(text)

\* the loop of _detect_text from the k-th pattern on
RECURSIVE DetectFrom(_, _)
DetectFrom(text, k) ==
    IF k > Len(TextPatterns) THEN "text/plain"
    ELSE IF Detector(TextPatterns[k], text) THEN TextPatterns[k]
    ELSE DetectFrom(text, k + 1)

\* a detector that asks the markdown predicate first
detect_text_markdown_first(text) ==
    IF is_markdown(text) THEN "text/markdown" ELSE DetectFrom(text, 1)

detect_text(text) == DetectFrom(text, 1)

detect_binary(data) ==
    IF startswith(data, <<"x89", "P", "N", "G">>) THEN "image/png"
    ELSE IF startswith(data, <<"xff", "xd8", "xff">>) THEN "image/jpeg"
    ELSE IF startswith(data, <<"G", "I", "F", "8">>) THEN "image/gif"
    ELSE IF startswith(data, <<"P", "K">>) THEN "application/zip"
    ELSE IF startswith(data, <<"%", "P", "D", "F">>) THEN "application/pdf"
    ELSE "application/octet-stream"

\* ------------------------------------------------------------------------
\* The texts the detector is run on
\* ------------------------------------------------------------------------

TextTokens ==
    { <<"\"">>, <<"*", "*">>, <<",">>, <<"\n">>, <<">">>, <<":">>,
      <<"<", "?", "=">> }

Texts ==
    { Flatten(ts) : ts \in UNION { [1..n -> TextTokens] : n \in 0..MaxToks } }

\* ------------------------------------------------------------------------
\* Input data.  A value is [kind, body, pad]:
\*   "none"   None
\*   "str"    the text body followed by pad spaces
\*   "bytes"  the bytes body followed by pad NUL bytes
\*   "list"   the list of pad elements, each the integer 1
\*   "dict"   the dict {1: 1, ..., pad: 1}, pad <= 9
\* The run of pad elements stands for inputs near the size limit, which no
\* explicit sequence can hold.
\* ------------------------------------------------------------------------

\* the size limit of _validate_input
MaxInputSize == 500000000

NoneData == [kind |-> "none", body |-> <<>>, pad |-> 0]

Str(body, pad) == [kind |-> "str", body |-> body, pad |-> pad]

Bytes(body, pad) == [kind |-> "bytes", body |-> body, pad |-> pad]

List(n) == [kind |-> "list", body |-> <<>>, pad |-> n]

Dict(n) == [kind |-> "dict", body |-> <<>>, pad |-> n]

\* hasattr(data, '__len__')
has_len(data) == data.kind \in {"str", "bytes", "list", "dict"}

\* len(data)
len(data) == Len(data.body) + data.pad

\* The text the predicates of the detector see.  Every predicate strips the
\* text or looks for patterns that hold at most one space, so a trailing run
\* of spaces is classified as a single trailing space is.
TextOf(data) ==
    IF data.kind = "str"
    THEN data.body \o (IF data.pad > 0 THEN <<" ">> ELSE <<>>)
    ELSE <<"N", "o", "n", "e">>

NamedBytes == {"x00", "x89", "xd8", "xff"}

\* the width of one byte in repr(bytes)
ReprWidth(b) ==
    IF b \in NamedBytes THEN 4
    ELSE IF b \in {"\t", "\n", "\r", "\\"} THEN 2
    ELSE 1

RECURSIVE ReprWidthSum(_)
ReprWidthSum(body) ==
    IF body = <<>> THEN 0 ELSE ReprWidth(Head(body)) + ReprWidthSum(Tail(body))

\* len(str(data))
StrLen(data) ==
    CASE data.kind = "none" -> 4
      [] data.kind = "str" -> len(data)
      [] data.kind = "bytes" -> 3 + ReprWidthSum(data.body) + 4 * data.pad
      [] data.kind = "list" -> IF data.pad = 0 THEN 2 ELSE 3 * data.pad
      [] data.kind = "dict" -> IF data.pad = 0 THEN 2 ELSE 6 * data.pad

\* ContentDetector.detect
detect(data) ==
    IF data.kind = "bytes" THEN detect_binary(data.body \o (IF data.pad > 0 THEN <<"x00">> ELSE <<>>))
    ELSE IF data.kind \in {"dict", "list"} THEN "text/json"
    ELSE IF data.kind = "str" THEN detect_text(TextOf(data))
    ELSE detect_text(TextOf(data))

ContentTypes ==
    { "text/json", "text/xml", "text/csv", "text/yaml", "text/code",
      "text/markdown", "text/plain", "image/png", "image/jpeg", "image/gif",
      "application/zip", "application/pdf", "application/octet-stream" }

\* content_type.startswith("text/")
IsTextType(content_type) ==
    content_type \in { "text/json", "text/xml", "text/csv", "text/yaml",
                       "text/code", "text/markdown", "text/plain" }

\* ------------------------------------------------------------------------
\* Outcomes of a call: a returned value or a raised exception
\* ------------------------------------------------------------------------

NoValue == [none |-> TRUE]

NoResult == [kind |-> "none", type |-> "", cause |-> "", value |-> NoValue]

Return(v) == [kind |-> "return", type |-> "", cause |-> "", value |-> v]

Raise(type, cause) == [kind |-> "raise", type |-> type, cause |-> cause, value |-> NoValue]

\* json.loads(data) inside _validate_input: "ok" or the exception it raises.
\* A bytes object is decoded and parsed; detect never tags bytes text/json.
json_loads(data) ==
    CASE data.kind = "str" ->
            IF JsonParses(TextOf(data)) THEN "ok" ELSE "JSONDecodeError"
      [] data.kind = "bytes" ->
            IF \E i \in 1..Len(data.body) : data.body[i] \in {"x89", "xd8", "xff"}
            THEN "UnicodeDecodeError"
            ELSE IF data.pad = 0 /\ JsonParses(data.body) THEN "ok"
            ELSE "JSONDecodeError"
      [] OTHER -> "TypeError"

\* ReiCompressor._validate_input
validate_input(data, content_type) ==
    IF data.kind = "none" THEN Raise("ValidationError", "Input data cannot be None")
    ELSE IF has_len(data) /\ len(data) > MaxInputSize
    THEN Raise("ValidationError", "Input data too large (>500MB)")
    ELSE IF content_type = "text/json" /\ json_loads(data) = "JSONDecodeError"
    THEN Raise("ValidationError", "Invalid JSON input")
    ELSE IF content_type = "text/json" /\ json_loads(data) # "ok"
    THEN Raise(json_loads(data), "")
    ELSE Return(data)

\* ------------------------------------------------------------------------
\* Construction
\* ------------------------------------------------------------------------

SupportedModels ==
    {"gpt-4o-mini", "gpt-4o", "mistral-large-latest", "mistral-small-latest"}

\* Literal["basic", "standard", "enterprise"]
SecurityLevels == {"basic", "standard", "enterprise"}

\* capabilities.get(key, default)
Get(capabilities, key, default) ==
    IF key \in DOMAIN capabilities THEN capabilities[key] ELSE default

\* What ModelAdapter.get_capabilities may return, as far as _build_pipeline
\* reads it: each flag present or absent, token_efficiency 2 or absent.
AdapterCapabilities ==
    { f @@ g :
        f \in UNION { [K -> BOOLEAN] :
                        K \in SUBSET {"advanced_reasoning", "function_calling"} },
        g \in { <<>>, [k \in {"token_efficiency"} |-> 2] } }

\* ReiCompressor._get_encryption_level
get_encryption_level(capabilities) ==
    IF Get(capabilities, "advanced_reasoning", FALSE) THEN "complex"
    ELSE IF Get(capabilities, "function_calling", FALSE) THEN "standard"
    ELSE "basic"

\* ReiCompressor._build_pipeline
build_pipeline(capabilities) ==
    [ max_complexity |-> Get(capabilities, "max_complexity", 1),
      supports_binary |-> Get(capabilities, "supports_binary", TRUE),
      token_efficiency |-> Get(capabilities, "token_efficiency", 1),
      encryption_level |-> get_encryption_level(capabilities) ]

\* ReiCompressor._get_target_size
get_target_size(pipeline) == 512 * pipeline.token_efficiency

\* ------------------------------------------------------------------------
\* State
\* ------------------------------------------------------------------------

VARIABLES
    model,                 \* self.__model
    security_level,        \* self.__security_level
    capabilities,          \* what self.__model_adapter reports
    compression_pipeline,  \* self.compression_pipeline
    calls,                 \* per caller: the call in progress or last made
    probe                  \* the detector on its own: a text and its verdicts

vars == <<model, security_level, capabilities, compression_pipeline, calls, probe>>

instance == <<model, security_level, capabilities, compression_pipeline>>

Callers == {"c1", "c2"}

NoToken == [content_type |-> ""]

NoCall ==
    [ op |-> "none", pc |-> "done", data |-> NoneData, token |-> NoToken,
      tools |-> <<>>, content_type |-> "", steps |-> <<>>,
      validated |-> NoResult, encryption_key |-> NoValue,
      formatted_output |-> NoValue, decryption_key |-> <<>>,
      result |-> NoResult ]

NoProbe == [text |-> <<>>, content_type |-> "", csv |-> "unset"]

\* ReiCompressor.__init__ for a supported model
Init ==
    /\ model \in SupportedModels
    /\ security_level \in SecurityLevels
    /\ capabilities \in AdapterCapabilities
    /\ compression_pipeline = build_pipeline(capabilities)
    /\ calls = [c \in Callers |-> NoCall]
    /\ probe = NoProbe

\* the call record after one more step was invoked
Invoke(call, name, arg) ==
    [call EXCEPT !.steps = Append(@, [name |-> name, arg |-> arg])]

\* what an external collaborator may do: return, or raise
Collaborator == {"returns", "raises"}

\* ------------------------------------------------------------------------
\* The data compress and get_compression_stats are called with
\* ------------------------------------------------------------------------

SampleTexts == { <<>>, <<"1">>, <<"\"">>, <<"<", ">">> }

SampleBytes == { <<>>, <<"x89", "P", "N", "G">> }

RawInputs ==
    {NoneData}
      \cup { Str(t, 0) : t \in SampleTexts }
      \cup { Str(<<>>, MaxInputSize), Str(<<>>, MaxInputSize + 1),
             Str(<<"1">>, MaxInputSize - 1), Str(<<"1">>, MaxInputSize) }
      \cup { Bytes(b, 0) : b \in SampleBytes }
      \cup { Bytes(<<>>, MaxInputSize), Bytes(<<>>, MaxInputSize + 1) }
      \cup { List(n) : n \in {0, 1, MaxInputSize, MaxInputSize + 1} }
      \cup { Dict(n) : n \in {0, 1} }

\* ------------------------------------------------------------------------
\* ReiCompressor.compress, one action per step of the pipeline.  The
\* collaborators (transformers, key manager, encryptor, formatter, tool
\* generator) are external: each call returns or raises, and what it returns
\* is recorded as the arguments it was handed.
\* ------------------------------------------------------------------------

\* except Exception as e: raise CompressionError(f"Compression failed: {str(e)}")
compress_except(e) == Raise("CompressionError", e)

\* hashlib.sha256(json.dumps(data, sort_keys=True, default=str).encode()).hexdigest()
content_hash(data) == [sha256_of |-> data]

\* self.__key_manager.derive_key(content_hash, tier)
derive_key(digest, tier) == [digest |-> digest, tier |-> tier]

\* self.__formatter.format_to_128_chars(encrypted_data, content_type, tier)
format_to_128_chars(key, content_type, tier) ==
    [content_type |-> content_type, tier |-> tier, encrypted_under |-> key]

\* self.__tool_generator.generate_tools(model, key, content_type, tier, pipeline)
generate_tools(m, key, content_type, tier, pipeline) ==
    [ model |-> m, key |-> key, content_type |-> content_type,
      tier |-> tier, pipeline |-> pipeline ]

\* return or raise: the result is handed to the caller and the call is over
ReturnToCaller(c) ==
    /\ calls[c].op # "none" /\ calls[c].pc = "done"
    /\ calls' = [calls EXCEPT ![c] = NoCall]
    /\ UNCHANGED <<instance, probe>>

CompressCall(c, d) ==
    /\ calls[c].op = "none"
    /\ calls' = [calls EXCEPT ![c] =
                    [NoCall EXCEPT !.op = "compress", !.pc = "detect", !.data = d]]
    /\ UNCHANGED <<instance, probe>>

CompressDetect(c) ==
    LET call == calls[c]
    IN  /\ call.op = "compress" /\ call.pc = "detect"
        /\ calls' = [calls EXCEPT ![c] =
                        [Invoke(call, "classify", "") EXCEPT
                            !.content_type = detect(call.data),
                            !.pc = "validate"]]
        /\ UNCHANGED <<instance, probe>>

\* a compress that ignores what validation said and goes on
CompressValidateIgnored(c) ==
    LET call == calls[c]
        v == validate_input(call.data, call.content_type)
        after == [Invoke(call, "validate", "") EXCEPT !.validated = v]
    IN  /\ call.op = "compress" /\ call.pc = "validate"
        /\ calls' = [calls EXCEPT ![c] = [after EXCEPT !.pc = "transform"]]
        /\ UNCHANGED <<instance, probe>>

CompressValidate(c) ==
    LET call == calls[c]
        v == validate_input(call.data, call.content_type)
        after == [Invoke(call, "validate", "") EXCEPT !.validated = v]
    IN  /\ call.op = "compress" /\ call.pc = "validate"
        /\ calls' = [calls EXCEPT ![c] =
                        IF v.kind = "return"
                        THEN [after EXCEPT !.pc = "transform"]
                        ELSE [after EXCEPT !.pc = "done",
                                           !.result = compress_except(v.type)]]
        /\ UNCHANGED <<instance, probe>>

\* A call of a collaborator at step `at`.  `invoked` is the call record once
\* the collaborator was called, `returned` the record once it returned: it
\* returns and the pipeline goes on to `next`, or it raises and compress ends.
CompressStep(c, at, invoked, returned, next) ==
    /\ calls[c].op = "compress" /\ calls[c].pc = at
    /\ \E outcome \in Collaborator :
          calls' = [calls EXCEPT ![c] =
                       IF outcome = "returns"
                       THEN [returned EXCEPT !.pc = next]
                       ELSE [invoked EXCEPT
                               !.pc = "done",
                               !.result = compress_except("CollaboratorError")]]
    /\ UNCHANGED <<instance, probe>>

CompressTextTransform(c) ==
    LET invoked == Invoke(calls[c], "transform", "text_compressor")
    IN  /\ IsTextType(calls[c].content_type)
        /\ CompressStep(c, "transform", invoked, invoked, "normalize")

CompressBinaryTransform(c) ==
    LET invoked == Invoke(calls[c], "transform", "binary_compressor")
    IN  /\ ~IsTextType(calls[c].content_type)
        /\ CompressStep(c, "transform", invoked, invoked, "normalize")

\* a compress that caches the target size in the instance's pipeline
CompressNormalizeCaching(c) ==
    /\ calls[c].op = "compress" /\ calls[c].pc = "normalize"
    /\ calls' = [calls EXCEPT ![c] =
                    [Invoke(calls[c], "normalize", "") EXCEPT !.pc = "derive_key"]]
    /\ compression_pipeline' =
          [compression_pipeline EXCEPT
              !.token_efficiency = get_target_size(compression_pipeline)]
    /\ UNCHANGED <<model, security_level, capabilities, probe>>

CompressNormalize(c) ==
    LET invoked == Invoke(calls[c], "normalize", "")
    IN  CompressStep(c, "normalize", invoked, invoked, "derive_key")

CompressDeriveKey(c) ==
    LET invoked == Invoke(calls[c], "derive_key", security_level)
        returned == [invoked EXCEPT !.encryption_key =
                        derive_key(content_hash(calls[c].data), security_level)]
    IN  CompressStep(c, "derive_key", invoked, returned, "encrypt")

CompressEncrypt(c) ==
    LET invoked == Invoke(calls[c], "encrypt", "")
    IN  CompressStep(c, "encrypt", invoked, invoked, "format")

\* a compress that hands the formatter the pipeline's encryption level
CompressFormatPipelineTier(c) ==
    LET tier == compression_pipeline.encryption_level
        invoked == Invoke(calls[c], "format", tier)
        returned == [invoked EXCEPT !.formatted_output =
                        format_to_128_chars(calls[c].encryption_key,
                                            calls[c].content_type, tier)]
    IN  CompressStep(c, "format", invoked, returned, "generate")

CompressFormat(c) ==
    LET invoked == Invoke(calls[c], "format", security_level)
        returned == [invoked EXCEPT !.formatted_output =
                        format_to_128_chars(calls[c].encryption_key,
                                            calls[c].content_type, security_level)]
    IN  CompressStep(c, "format", invoked, returned, "generate")

CompressGenerate(c) ==
    LET invoked == Invoke(calls[c], "generate", security_level)
        returned == [invoked EXCEPT !.result =
                        Return([ token |-> calls[c].formatted_output,
                                 tools |-> generate_tools(model,
                                             calls[c].encryption_key,
                                             calls[c].content_type,
                                             security_level,
                                             compression_pipeline) ])]
    IN  CompressStep(c, "generate", invoked, returned, "done")

\* ------------------------------------------------------------------------
\* ReiCompressor.get_compression_stats
\* ------------------------------------------------------------------------

EstimatedRatio(content_type) ==
    IF content_type = "text/json" THEN "0.3"
    ELSE IF IsTextType(content_type) THEN "0.4"
    ELSE "0.6"

\* compression_ratio is the quotient 128 / original_size, kept as the pair
get_compression_stats(data) ==
    LET original_size == StrLen(data)
        content_type == detect(data)
    IN  IF original_size = 0 THEN Raise("ZeroDivisionError", "division by zero")
        ELSE Return([ original_size |-> original_size,
                      content_type |-> content_type,
                      estimated_compressed_size |-> 128,
                      compression_ratio |-> <<128, original_size>>,
                      estimated_ratio |-> EstimatedRatio(content_type),
                      model |-> model,
                      security_level |-> security_level ])

Stats(c, d) ==
    /\ calls[c].op = "none"
    /\ calls' = [calls EXCEPT ![c] =
                    [NoCall EXCEPT !.op = "stats", !.data = d,
                                   !.result = get_compression_stats(d)]]
    /\ UNCHANGED <<instance, probe>>

\* ------------------------------------------------------------------------
\* ReiCompressor.decompress.  A tool is [name, description], what
\* tool.get("function", {}) holds under "name" and "description" ("" when
\* absent); a descriptor is a list of tools.
\* ------------------------------------------------------------------------

DecryptContext ==
    <<"d", "e", "c", "r", "y", "p", "t", "_", "c", "o", "n", "t", "e", "x", "t">>

KeyMarker == <<"k", "e", "y", ":">>

Tool(name, description) == [name |-> name, description |-> description]

\* the offset of the last "key:" in the description, or 0
LastMarker(description) ==
    LET at == {i \in 1..Len(description) : StartsWithAt(description, i, KeyMarker)}
    IN  IF at = {} THEN 0 ELSE CHOOSE i \in at : \A j \in at : j <= i

\* ReiCompressor._extract_key_from_tool: the key, None or an IndexError
extract_key_from_tool(tool) ==
    LET description == tool.description
        i == LastMarker(description)
        words == split_ws(SubSeq(description, i + Len(KeyMarker), Len(description)))
    IN  IF i = 0 THEN NoResult
        ELSE IF words = <<>> THEN Raise("IndexError", "list index out of range")
        ELSE Return(words[1])

\* "decrypt_context" in tool.get("function", {}).get("name", "")
IsDecryptTool(tool) == Contains(tool.name, DecryptContext)

\* the loop over tools: the first decrypt tool decides, then break
find_key(tools) ==
    LET at == {i \in 1..Len(tools) : IsDecryptTool(tools[i])}
    IN  IF at = {} THEN NoResult
        ELSE extract_key_from_tool(tools[CHOOSE i \in at : \A j \in at : i <= j])

\* except Exception as e: raise CompressionError(...) from e
decompress_except(e) == Raise("CompressionError", e)

DecompressCall(c, token, tools) ==
    /\ calls[c].op = "none"
    /\ calls' = [calls EXCEPT ![c] =
                    [NoCall EXCEPT !.op = "decompress", !.pc = "extract_metadata",
                                   !.token = token, !.tools = tools]]
    /\ UNCHANGED <<instance, probe>>

\* a call of a collaborator at step `at` of decompress
DecompressStep(c, at, invoked, returned, next) ==
    /\ calls[c].op = "decompress" /\ calls[c].pc = at
    /\ \E outcome \in Collaborator :
          calls' = [calls EXCEPT ![c] =
                       IF outcome = "returns"
                       THEN [returned EXCEPT !.pc = next]
                       ELSE [invoked EXCEPT
                               !.pc = "done",
                               !.result = decompress_except("CollaboratorError")]]
    /\ UNCHANGED <<instance, probe>>

DecompressExtractMetadata(c) ==
    LET invoked == Invoke(calls[c], "extract_metadata", "")
        returned == [invoked EXCEPT !.content_type = calls[c].token.content_type]
    IN  DecompressStep(c, "extract_metadata", invoked, returned, "find_key")

DecompressFindKey(c) ==
    LET call == calls[c]
        found == find_key(call.tools)
        after == Invoke(call, "find_key", "")
    IN  /\ call.op = "decompress" /\ call.pc = "find_key"
        /\ calls' = [calls EXCEPT ![c] =
                        IF found.kind = "raise"
                        THEN [after EXCEPT !.pc = "done",
                                           !.result = decompress_except(found.type)]
                        ELSE IF found.kind = "none"
                        THEN [after EXCEPT !.pc = "done",
                                           !.result = decompress_except("CompressionError")]
                        ELSE [after EXCEPT !.pc = "decrypt",
                                           !.decryption_key = found.value]]
        /\ UNCHANGED <<instance, probe>>

DecompressDecrypt(c) ==
    LET invoked == Invoke(calls[c], "decrypt", "")
    IN  DecompressStep(c, "decrypt", invoked, invoked, "inverse_transform")

DecompressTextInverse(c) ==
    LET invoked == Invoke(calls[c], "inverse_transform", "text_compressor")
        returned == [invoked EXCEPT !.result =
                        Return([decompressed |-> calls[c].token,
                                under |-> calls[c].decryption_key])]
    IN  /\ IsTextType(calls[c].content_type)
        /\ DecompressStep(c, "inverse_transform", invoked, returned, "done")

DecompressBinaryInverse(c) ==
    LET invoked == Invoke(calls[c], "inverse_transform", "binary_compressor")
        returned == [invoked EXCEPT !.result =
                        Return([decompressed |-> calls[c].token,
                                under |-> calls[c].decryption_key])]
    IN  /\ ~IsTextType(calls[c].content_type)
        /\ DecompressStep(c, "inverse_transform", invoked, returned, "done")

\* ------------------------------------------------------------------------
\* The tokens and descriptors decompress is called with
\* ------------------------------------------------------------------------

Tokens == { [content_type |-> ct] : ct \in {"text/plain", "image/png"} }

DescTokens == { KeyMarker, <<"A">>, <<" ">> }

Descriptions ==
    { Flatten(ts) : ts \in UNION { [1..n -> DescTokens] : n \in 0..MaxDescToks } }

ToolNames ==
    { DecryptContext, <<"g", "p", "t", "_">> \o DecryptContext, <<"o", "t", "h", "e", "r">> }

Tools == { Tool(n, d) : n \in ToolNames, d \in Descriptions }

Descriptors == UNION { [1..n -> Tools] : n \in 0..MaxTools }

KeyedTool == Tool(DecryptContext, KeyMarker \o <<"A">>)

UnkeyedTool == Tool(DecryptContext, <<"A">>)

SampleDescriptors ==
    { <<>>, <<KeyedTool>>, <<UnkeyedTool, KeyedTool>>,
      <<Tool(<<"o", "t", "h", "e", "r">>, <<>>), KeyedTool>> }

\* ------------------------------------------------------------------------
\* Specifications
\* ------------------------------------------------------------------------

\* what one caller may do next, given the inputs callers choose from
CompressNext(c, inputs) ==
    \/ \E d \in inputs : CompressCall(c, d)
    \/ CompressDetect(c)
    \/ CompressValidate(c)
    \/ CompressTextTransform(c)
    \/ CompressBinaryTransform(c)
    \/ CompressNormalize(c)
    \/ CompressDeriveKey(c)
    \/ CompressEncrypt(c)
    \/ CompressFormat(c)
    \/ CompressGenerate(c)

DecompressNext(c, tokens, descriptors) ==
    \/ \E t \in tokens, d \in descriptors : DecompressCall(c, t, d)
    \/ DecompressExtractMetadata(c)
    \/ DecompressFindKey(c)
    \/ DecompressDecrypt(c)
    \/ DecompressTextInverse(c)
    \/ DecompressBinaryInverse(c)

\* one caller, one call after the other
Next ==
    \/ CompressNext("c1", RawInputs)
    \/ DecompressNext("c1", Tokens, SampleDescriptors)
    \/ \E d \in RawInputs : Stats("c1", d)
    \/ ReturnToCaller("c1")

Spec == Init /\ [][Next]_vars

\* the inputs of the interleaved callers
ConcurrentInputs == { NoneData, Str(<<>>, 0), Bytes(<<"x89", "P", "N", "G">>, 0) }

ConcurrentDescriptors == { <<KeyedTool>>, <<UnkeyedTool, KeyedTool>> }

InitConcurrent == Init /\ model = "gpt-4o"

\* two callers on one instance, their steps interleaved
NextConcurrent ==
    \E c \in Callers :
        \/ CompressNext(c, ConcurrentInputs)
        \/ DecompressNext(c, Tokens, ConcurrentDescriptors)
        \/ \E d \in ConcurrentInputs : Stats(c, d)
        \/ ReturnToCaller(c)

SpecConcurrent == InitConcurrent /\ [][NextConcurrent]_vars

\* decompress alone, on one instance, over every descriptor
InitDecode ==
    /\ Init
    /\ model = "gpt-4o"
    /\ security_level = "standard"
    /\ capabilities = <<>>

NextDecode == DecompressNext("c1", Tokens, Descriptors) \/ ReturnToCaller("c1")

SpecDecode == InitDecode /\ [][NextDecode]_vars

\* ------------------------------------------------------------------------
\* The detector on its own: one text, classified and probed
\* ------------------------------------------------------------------------

InitDetect ==
    /\ model = "gpt-4o"
    /\ security_level = "standard"
    /\ capabilities = <<>>
    /\ compression_pipeline = build_pipeline(capabilities)
    /\ calls = [c \in Callers |-> NoCall]
    /\ \E t \in Texts : probe = [text |-> t, content_type |-> "", csv |-> "unset"]

DetectText ==
    /\ probe.content_type = ""
    /\ probe' = [probe EXCEPT !.content_type = detect_text(probe.text)]
    /\ UNCHANGED <<instance, calls>>

IsCsv ==
    /\ probe.csv = "unset"
    /\ probe' = [probe EXCEPT !.csv = IF is_csv(probe.text) THEN "yes" ELSE "no"]
    /\ UNCHANGED <<instance, calls>>

NextDetect == DetectText \/ IsCsv

SpecDetect == InitDetect /\ [][NextDetect]_vars

\* ------------------------------------------------------------------------
\* Properties
\* ------------------------------------------------------------------------

\* whether the step was invoked in the call
Acted(call, name) == \E i \in 1..Len(call.steps) : call.steps[i].name = name

\* C1: when validation rejects the input during compress, the error that
\* reaches the caller of compress is the ValidationError itself, not another
\* error type.
C1_ValidationErrorPropagates ==
    \A c \in Callers :
        LET call == calls[c]
        IN  ( /\ call.op = "compress"
              /\ call.pc = "done"
              /\ call.validated.kind = "raise"
              /\ call.validated.type = "ValidationError" )
            => (call.result.kind = "raise" /\ call.result.type = "ValidationError")

\* C2: for every input that has a length, validation passes when the length
\* is at most 500,000,000 and fails with ValidationError when it is more; a
\* None input fails with ValidationError whatever the tag.
C2_SizeBoundary ==
    \A c \in Callers :
        LET call == calls[c]
        IN  (call.op = "compress" /\ Acted(call, "validate")) =>
              /\ (has_len(call.data) /\ len(call.data) <= MaxInputSize)
                    => call.validated.kind = "return"
              /\ (has_len(call.data) /\ len(call.data) >= MaxInputSize + 1)
                    => ( /\ call.validated.kind = "raise"
                         /\ call.validated.type = "ValidationError" )
              /\ call.data.kind = "none"
                    => \A tag \in ContentTypes :
                          /\ validate_input(call.data, tag).kind = "raise"
                          /\ validate_input(call.data, tag).type = "ValidationError"

\* C3: for every text, bytes, mapping or list input and the tag the detector
\* gives it, validation either returns the very same input or raises
\* ValidationError, and raises only for None, oversize, or text/json input
\* that does not parse; no other exception type leaves validation.
C3_ValidateGate ==
    \A c \in Callers :
        LET call == calls[c]
        IN  ( /\ call.op = "compress"
              /\ Acted(call, "validate")
              /\ call.data.kind \in {"str", "bytes", "dict", "list"} ) =>
              \/ call.validated = Return(call.data)
              \/ /\ call.validated.kind = "raise"
                 /\ call.validated.type = "ValidationError"
                 /\ \/ len(call.data) > MaxInputSize
                    \/ /\ call.content_type = "text/json"
                       /\ json_loads(call.data) = "JSONDecodeError"

\* the order of the predicates, as stated
PredicateOrder ==
    << "text/json", "text/xml", "text/csv", "text/yaml",
       "text/code", "text/markdown", "text/plain" >>

\* C4: for every text the detector returns exactly one tag, whose predicate
\* holds on the text while every predicate earlier in the order json, xml, csv,
\* yaml, code, markdown, plain fails on it; a text that is both JSON and
\* markdown is tagged text/json, one that satisfies no predicate before the
\* last is tagged text/plain.
C4_FirstMatchWins ==
    probe.content_type # "" =>
        LET text == probe.text
            tag == probe.content_type
        IN  /\ \E k \in 1..Len(PredicateOrder) :
                  /\ PredicateOrder[k] = tag
                  /\ Detector(tag, text)
                  /\ \A j \in 1..(k - 1) : ~Detector(PredicateOrder[j], text)
            /\ (is_json(text) /\ is_markdown(text)) => tag = "text/json"
            /\ ( ~is_json(text) /\ ~is_xml(text) /\ ~is_csv(text)
                 /\ ~is_yaml(text) /\ ~is_code(text) /\ ~is_markdown(text) )
                  => tag = "text/plain"

\* a classified text that is both JSON and markdown
C4_Witness ==
    /\ probe.content_type = "text/json"
    /\ is_json(probe.text)
    /\ is_markdown(probe.text)

\* C5: get_compression_stats never raises for an input that passes
\* validation, the empty string included, and always reports an expected
\* token size of 128.
C5_StatsNeverRaises ==
    \A c \in Callers :
        LET call == calls[c]
        IN  ( /\ call.op = "stats"
              /\ validate_input(call.data, detect(call.data)).kind = "return" )
            => ( /\ call.result.kind = "return"
                 /\ call.result.value.estimated_compressed_size = 128 )

\* some tool named for decryption carries a key
CarriesKey(tools) ==
    \E i \in 1..Len(tools) :
        /\ IsDecryptTool(tools[i])
        /\ extract_key_from_tool(tools[i]).kind = "return"

\* C6: for every descriptor, in any order of its entries, if at least one
\* entry named for decryption carries a key then decompress extracts a key and
\* goes on to decrypt, and if none does it raises CompressionError without
\* calling decrypt or an inverse transform.
C6_KeyNotFoundIff ==
    \A c \in Callers :
        LET call == calls[c]
        IN  (call.op = "decompress" /\ Acted(call, "find_key")) =>
              /\ CarriesKey(call.tools)
                    => ( /\ call.decryption_key # <<>>
                         /\ (call.pc = "decrypt" \/ Acted(call, "decrypt")) )
              /\ ~CarriesKey(call.tools)
                    => ( /\ call.pc = "done"
                         /\ call.result.kind = "raise"
                         /\ call.result.type = "CompressionError"
                         /\ ~Acted(call, "decrypt")
                         /\ ~Acted(call, "inverse_transform") )

\* the csv predicate as stated: delimiter counts compared line by line
CsvPerLine(text) ==
    LET lines == split(strip(text), "\n")
    IN  /\ Len(lines) >= 2
        /\ \E delimiter \in {",", ";", "\t", "|"} :
              /\ count(lines[1], delimiter) > 0
              /\ \A k \in 2..Min(5, Len(lines)) :
                    Abs(count(lines[k], delimiter) - count(lines[1], delimiter)) <= 1

\* C7: the csv predicate holds exactly when the trimmed text has at least 2
\* lines and some delimiter among comma, semicolon, tab and pipe occurs in the
\* first line and, in each of the next at most 4 lines, a number of times
\* within 1 of the first line's.
C7_CsvPerLineCount ==
    probe.csv # "unset" => ((probe.csv = "yes") <=> CsvPerLine(probe.text))

EncodeOrder ==
    << "classify", "validate", "transform", "normalize",
       "derive_key", "encrypt", "format", "generate" >>

\* the steps of a compress call so far are the first steps of the pipeline,
\* in order and once each; nothing ran after a failed validation; a pair is
\* returned only after all eight steps
EncodeInOrder(call) ==
    /\ Len(call.steps) <= Len(EncodeOrder)
    /\ \A i \in 1..Len(call.steps) : call.steps[i].name = EncodeOrder[i]
    /\ call.validated.kind = "raise" => Len(call.steps) = 2
    /\ call.result.kind = "raise" => call.pc = "done"
    /\ call.result.kind = "return" =>
          /\ call.pc = "done"
          /\ Len(call.steps) = Len(EncodeOrder)
          /\ DOMAIN call.result.value = {"token", "tools"}
          /\ call.result.value.token # NoValue
          /\ call.result.value.tools # NoValue

\* C8: within one compress call the steps run in the order classify,
\* validate, transform, normalize, derive key, encrypt, format, generate, each
\* at most once; once a step fails no later step is invoked; a (token,
\* descriptor) pair is returned only when all eight steps succeeded.
C8_EncodeStepOrder ==
    /\ [](\A c \in Callers : calls[c].op = "compress" => EncodeInOrder(calls[c]))
    /\ [][\A c \in Callers :
            (calls[c].op = "compress" /\ calls[c].result.kind = "raise")
                => calls'[c] \in {calls[c], NoCall}]_vars

\* a compress call that failed in the encryptor, after six steps
C8_Witness ==
    \E c \in Callers :
        /\ calls[c].op = "compress"
        /\ calls[c].result.kind = "raise"
        /\ Len(calls[c].steps) = 6

\* C9: no sequence or interleaving of compress, decompress and
\* get_compression_stats calls on one instance changes its pipeline
\* configuration, model or security level; what a call returns is built from
\* its own arguments and these fixed values.
C9_ConfigImmutable ==
    /\ [][ /\ model' = model
           /\ security_level' = security_level
           /\ compression_pipeline' = compression_pipeline ]_vars
    /\ [](\A c \in Callers :
            (calls[c].op = "compress" /\ calls[c].result.kind = "return") =>
                /\ calls[c].result.value.tools.model = model
                /\ calls[c].result.value.tools.pipeline = build_pipeline(capabilities))

\* two calls in progress at once, one compressing and one decompressing
C9_Witness ==
    /\ calls["c1"].op = "compress"
    /\ calls["c1"].pc = "encrypt"
    /\ calls["c2"].op = "decompress"
    /\ calls["c2"].pc = "decrypt"

TierSteps == {"derive_key", "format", "generate"}

\* C10 as stated: the tier compress hands to key derivation, the formatter
\* and the tool generator is the encryption level of the pipeline
\* configuration, so the tier in a token is one of basic, standard, complex.
C10_TierIsPipelineLevel ==
    \A c \in Callers :
        LET call == calls[c]
        IN  call.op = "compress" =>
              /\ \A i \in 1..Len(call.steps) :
                    call.steps[i].name \in TierSteps =>
                        /\ call.steps[i].arg = compression_pipeline.encryption_level
                        /\ call.steps[i].arg \in {"basic", "standard", "complex"}
              /\ call.result.kind = "return" =>
                    /\ call.result.value.token.tier = compression_pipeline.encryption_level
                    /\ call.result.value.token.tier \in {"basic", "standard", "complex"}

\* C10, amended: the tier compress hands to key derivation, the formatter and
\* the tool generator, and so the tier in a token, is the security level the
\* instance was constructed with; the pipeline configuration's encryption
\* level is chosen by priority from the capabilities (advanced reasoning ->
\* complex, else function calling -> standard, else basic), is one of basic,
\* standard, complex, and reaches the tool generator only inside the pipeline
\* configuration.
C10_TierIsSecurityLevel ==
    /\ compression_pipeline.encryption_level =
          ( IF "advanced_reasoning" \in DOMAIN capabilities
                  /\ capabilities["advanced_reasoning"]
            THEN "complex"
            ELSE IF "function_calling" \in DOMAIN capabilities
                      /\ capabilities["function_calling"]
            THEN "standard"
            ELSE "basic" )
    /\ \A c \in Callers :
          LET call == calls[c]
          IN  call.op = "compress" =>
                /\ \A i \in 1..Len(call.steps) :
                      call.steps[i].name \in TierSteps =>
                          call.steps[i].arg = security_level
                /\ call.result.kind = "return" =>
                      /\ call.result.value.token.tier = security_level
                      /\ call.result.value.tools.tier = security_level
                      /\ call.result.value.tools.pipeline = compression_pipeline

\* a token returned by an instance whose security level is not its
\* pipeline's encryption level
C10_Witness ==
    \E c \in Callers :
        /\ calls[c].op = "compress"
        /\ calls[c].result.kind = "return"
        /\ calls[c].result.value.token.tier = "enterprise"
        /\ compression_pipeline.encryption_level = "complex"

====
